---- MODULE Spec2Model ----
(***************************************************************************)
(* A model of src/src/lib/router.ts: the Route tree (name, label, path,     *)
(* parent link, children), the Router root built from Route Definitions,   *)
(* the recursive path matcher, page navigation, find/has and the           *)
(* creation-notification chain.                                            *)
(*                                                                         *)
(* Strings are sequences of one-character strings, so that substr,         *)
(* indexOf, join and the character walk of matches are computed as the     *)
(* code computes them.  Route objects are numbered in order of             *)
(* construction; object 1 is the Router.  The meta field is an opaque      *)
(* payload that no operation modelled here reads, and is left out.         *)
(***************************************************************************)
EXTENDS Integers, Sequences, FiniteSets, TLC

VARIABLES
  name,         \* name[r]: Route.name
  label,        \* label[r]: Route.label
  path,         \* path[r]: Route.path
  _parent,      \* _parent[r]: Route._parent, None when never assigned
  _routes,      \* _routes[r]: Route._routes, the children in order
  _activePath,  \* _activePath[r]: Route._activePath, Undefined when never assigned
  _onNewRoute,  \* _onNewRoute[r]: the callback held by r, Noop for the default () => {}
  registered,   \* the number of callbacks handed to onNewRoute so far
  log,          \* the callback invocations made by the last call, in order
  call,         \* the last call: its name and, for add, its receiver and the Route it
                \* made, and for matches, its receiver and the path it was given
  result        \* what the last call returned or threw

vars == <<name, label, path, _parent, _routes, _activePath, _onNewRoute, registered, log, call, result>>

-----------------------------------------------------------------------------
(* Bounds of the model *)

\* at most this many Route objects, the Router included
MaxRoutes == 4
\* at most this many Route objects where only the tree is extended
MaxTreeRoutes == 5
\* at most this many Route objects where listeners are registered
MaxNotifyRoutes == 5
\* at most this many Route objects where links are assigned
MaxLinkRoutes == 3
\* at most this many onNewRoute registrations
MaxCallbacks == 3
\* at most this many segments after the leading '/' of a pattern handed to the matcher
MaxSegments == 2
\* at most this many characters in a candidate path handed to the matcher
MaxPathLen == 4
\* at most this many trailing '/' appended to a page's fullPath
MaxSlashes == 1

-----------------------------------------------------------------------------
(* JavaScript values *)

\* a Route reference that is undefined
None == 0
\* a string slot that is undefined (never a string of characters)
Undefined == <<"undefined">>
\* the default listener, () => {}
Noop == 0
\* the Router is the first object constructed
Router == 1

\* array[i] with a 0-based index: undefined when i is out of range
At(array, i) == IF i + 1 \in 1..Len(array) THEN array[i + 1] ELSE None

\* str[i] with a 0-based index: undefined when i is out of range
CharAt(str, i) == IF i + 1 \in 1..Len(str) THEN str[i + 1] ELSE "undefined"

\* str.substr(i)
Substr(str, i) == SubSeq(str, i + 1, Len(str))

\* str.includes(char)
Includes(str, char) == \E i \in 1..Len(str) : str[i] = char

\* str.indexOf(char), 0-based, for a str that includes char
IndexOf(str, char) == (CHOOSE i \in 1..Len(str) : str[i] = char /\ \A j \in 1..(i - 1) : str[j] # char) - 1

\* array.includes(x) and array.indexOf(x) (0-based, -1 when absent)
ArrayIncludes(array, x) == \E i \in 1..Len(array) : array[i] = x

ArrayIndexOf(array, x) ==
  IF ArrayIncludes(array, x)
  THEN (CHOOSE i \in 1..Len(array) : array[i] = x /\ \A j \in 1..(i - 1) : array[j] # x) - 1
  ELSE -1

\* the first element of an array, None when it is empty (array.find keeps the
\* first element its predicate accepts)
First(array) == IF array = <<>> THEN None ELSE array[1]

\* parts.join(sep)
RECURSIVE Join(_, _)
Join(parts, sep) ==
  IF parts = <<>> THEN <<>>
  ELSE IF Len(parts) = 1 THEN parts[1]
  ELSE parts[1] \o sep \o Join(Tail(parts), sep)

\* parts.filter(part => part && part !== "").join(sep)
JoinNonEmpty(parts, sep) ==
  Join(SelectSeq(parts, LAMBDA part : part # Undefined /\ part # <<>>), sep)

\* str.replace(/\/+$/, "")
RECURSIVE StripTrailingSlashes(_)
StripTrailingSlashes(str) ==
  IF str # <<>> /\ str[Len(str)] = "/" THEN StripTrailingSlashes(SubSeq(str, 1, Len(str) - 1)) ELSE str

-----------------------------------------------------------------------------
(* Route.matches: the recursive walk over pattern and candidate *)

tail(str) == Substr(str, 1)

after(str, char) == IF Includes(str, char) THEN Substr(str, IndexOf(str, char) + 1) ELSE <<>>

RECURSIVE match(_, _)
match(dynamic, fixed) ==
  IF Len(dynamic) = 0 /\ Len(fixed) = 0 THEN TRUE
  ELSE IF CharAt(dynamic, 1) = ":" /\ CharAt(fixed, 1) = "undefined" THEN FALSE
  ELSE IF CharAt(dynamic, 0) = ":" /\ Len(fixed) = 0 THEN match(after(dynamic, "/"), fixed)
  ELSE IF CharAt(dynamic, 0) = ":" /\ CharAt(fixed, 0) # "/" THEN match(dynamic, tail(fixed))
  ELSE IF CharAt(dynamic, 0) = ":" /\ CharAt(fixed, 0) = "/" THEN match(after(dynamic, "/"), tail(fixed))
  ELSE IF CharAt(dynamic, 0) = CharAt(fixed, 0) THEN match(tail(dynamic), tail(fixed))
  ELSE FALSE

-----------------------------------------------------------------------------
(* The object graph.  The operators below take and return a heap h, a record *)
(* of the fields of every Route constructed so far, so that a call which    *)
(* makes further calls (add, the constructor, the setters) is one step.     *)

\* nothing was thrown
NoError == <<>>

Heap ==
  [name |-> name, label |-> label, path |-> path, parent |-> _parent, routes |-> _routes,
   activePath |-> _activePath, onNewRoute |-> _onNewRoute, log |-> log, thrown |-> NoError]

Routes(h) == 1..Len(h.name)

\* throw new Error(`Cannot add ${route.fullName} to ${this.fullName}, because it
\* already belongs to ${route.parent.fullName}`)
ConflictError(routeName, thisName, parentName) == <<"Cannot add", routeName, "to", thisName, "because it already belongs to", parentName>>

\* throw new Error("activePath can only be set on the router, not a child route")
InvalidOperation == <<"activePath can only be set on the router, not a child route">>

\* throw new Error(`Cannot match ${path}, it needs to be a valid URL with no dynamic segments`)
InvalidArgument(p) == <<"Cannot match", p, "it needs to be a valid URL with no dynamic segments">>

\* undefined.replace(...): TypeError
TypeError == <<"TypeError: cannot read property 'replace' of undefined">>

Returned(v) == [thrown |-> NoError, value |-> v]

Threw(e) == [thrown |-> e, value |-> None]

\* the Routes on the parent chain of r, r included, in the heap at hand
RECURSIVE ChainOf(_, _)
ChainOf(h, r) == {r} \cup (IF h.parent[r] = None THEN {} ELSE ChainOf(h, h.parent[r]))

RECURSIVE fullName(_, _)
fullName(h, this) ==
  JoinNonEmpty(<<IF h.parent[this] # None THEN fullName(h, h.parent[this]) ELSE Undefined, h.name[this]>>, <<".">>)

RECURSIVE fullPath(_, _)
fullPath(h, this) ==
  JoinNonEmpty(<<IF h.parent[this] # None THEN fullPath(h, h.parent[this]) ELSE Undefined, h.path[this]>>, <<>>)

isDynamic(h, this) == Includes(h.path[this], ":")

\* set parent(parent)
setParent(h, this, parent) ==
  [h EXCEPT !.parent[this] = parent,
            !.routes[parent] = IF ArrayIncludes(@, this) THEN @ ELSE Append(@, this)]

\* routes.forEach(route => ...) of set routes, from the i-th route on
RECURSIVE forEachRoute(_, _, _, _)
forEachRoute(h, this, routes, i) ==
  IF i > Len(routes) THEN h
  ELSE LET route == routes[i] IN
       IF h.parent[route] # None /\ h.parent[route] # this
       THEN [h EXCEPT !.thrown = ConflictError(fullName(h, route), fullName(h, this), fullName(h, h.parent[route]))]
       ELSE forEachRoute(setParent(h, route, this), this, routes, i + 1)

\* set routes(routes)
setRoutes(h, this, routes) == forEachRoute([h EXCEPT !.routes[this] = routes], this, routes, 1)

\* new Route(config); the new object is Len(h.name) + 1
construct(h, config) ==
  LET this == Len(h.name) + 1
      h1 == [h EXCEPT !.name = Append(@, config.name),
                      !.label = Append(@, config.label),
                      !.path = Append(@, config.path),
                      !.parent = Append(@, None),
                      !.routes = Append(@, <<>>),
                      !.activePath = Append(@, Undefined),
                      !.onNewRoute = Append(@, Noop)]
      h2 == setRoutes(h1, this, config.routes)
  IN IF h2.thrown # NoError THEN h2
     ELSE IF config.parent # None THEN setParent(h2, this, config.parent)
     ELSE h2

\* flatten as it would be if reduce put each Route and its subtree in front of
\* the result, not behind it
RECURSIVE flattenLastFirst(_, _)
flattenLastFirst(h, routes) ==
  IF routes = <<>> THEN <<>>
  ELSE flattenLastFirst(h, Tail(routes)) \o <<Head(routes)>> \o flattenLastFirst(h, h.routes[Head(routes)])

\* flatten(routes) of get allRoutes
RECURSIVE flatten(_, _)
flatten(h, routes) ==
  IF routes = <<>> THEN <<>>
  ELSE <<Head(routes)>> \o flatten(h, h.routes[Head(routes)]) \o flatten(h, Tail(routes))

allRoutes(h, this) == flatten(h, h.routes[this])

\* pages as it would be if every Route read the pages of the whole tree
pagesOfRoot(h, this) ==
  LET root == CHOOSE r \in Routes(h) : h.parent[r] = None /\ (r = this \/ r \in ChainOf(h, this)) IN
  SelectSeq(flatten(h, h.routes[root]), LAMBDA route : Len(h.routes[route]) = 0)

pages(h, this) == SelectSeq(allRoutes(h, this), LAMBDA route : Len(h.routes[route]) = 0)

\* get activePath
RECURSIVE activePath(_, _)
activePath(h, this) ==
  IF h.parent[this] # None THEN activePath(h, h.parent[this]) ELSE h.activePath[this]

\* set activePath(path)
setActivePath(h, this, p) ==
  IF h.parent[this] # None THEN [h EXCEPT !.thrown = InvalidOperation]
  ELSE [h EXCEPT !.activePath[this] = p]

matches(h, this, p) ==
  IF Includes(p, ":") THEN Threw(InvalidArgument(p))
  ELSE Returned(match(fullPath(h, this), p))

\* get activePage: the callback of find runs once per page until it accepts one,
\* and throws on the first page when activePath is undefined or holds a ':'
activePage(h, this) ==
  LET pgs == pages(h, this)
      p == StripTrailingSlashes(activePath(h, this))
  IN IF pgs = <<>> THEN Returned(None)
     ELSE IF activePath(h, this) = Undefined THEN Threw(TypeError)
     ELSE IF matches(h, pgs[1], p).thrown # NoError THEN Threw(matches(h, pgs[1], p).thrown)
     ELSE Returned(First(SelectSeq(pgs, LAMBDA route : matches(h, route, p).value)))

\* this.activePage && this.pages.find(route => route.fullName === this.activePage.fullName),
\* for an active page that was read without a throw
pageNamedLikeActive(h, this, active) ==
  IF active = None THEN None
  ELSE LET activeName == fullName(h, active) IN
       First(SelectSeq(pages(h, this), LAMBDA route : fullName(h, route) = activeName))

previousPage(h, this) ==
  LET active == activePage(h, this)
      pgs == pages(h, this)
      m == pageNamedLikeActive(h, this, active.value)
      currentIndex == ArrayIndexOf(pgs, m)
      hasPreviousPage == m # None /\ currentIndex > 0
  IN IF active.thrown # NoError THEN active
     ELSE Returned(IF hasPreviousPage THEN At(pgs, currentIndex - 1) ELSE None)

nextPage(h, this) ==
  LET active == activePage(h, this)
      pgs == pages(h, this)
      m == pageNamedLikeActive(h, this, active.value)
      currentIndex == ArrayIndexOf(pgs, m)
      hasNextPage == m # None /\ currentIndex < Len(pgs)
  IN IF active.thrown # NoError THEN active
     ELSE Returned(IF hasNextPage THEN At(pgs, currentIndex + 1) ELSE None)

routerFor(h, this, p) == First(SelectSeq(allRoutes(h, this), LAMBDA route : fullPath(h, route) = p))

\* route[key] for the keys a search may hold
Field(h, route, key) ==
  CASE key = "label" -> h.label[route]
    [] key = "name" -> h.name[route]
    [] key = "fullName" -> fullName(h, route)
    [] key = "path" -> h.path[route]
    [] key = "fullPath" -> fullPath(h, route)

\* find as it would be if it searched the pages only
findAmongPages(h, this, search) ==
  First(SelectSeq(pages(h, this), LAMBDA route : \A key \in DOMAIN search : search[key] = Field(h, route, key)))

\* find(search): search is a function from some of the keys to strings
find(h, this, search) ==
  First(SelectSeq(allRoutes(h, this), LAMBDA route : \A key \in DOMAIN search : search[key] = Field(h, route, key)))

has(h, this, search) == find(h, this, search) # None

\* didCreateRoute as it would be if the parent were notified before this Route
RECURSIVE didCreateRouteParentFirst(_, _, _)
didCreateRouteParentFirst(h, this, route) ==
  LET h1 == IF h.parent[this] # None THEN didCreateRouteParentFirst(h, h.parent[this], route) ELSE h
  IN [h1 EXCEPT !.log = Append(@, [holder |-> this, callback |-> h.onNewRoute[this], route |-> route])]

\* didCreateRoute(route): every callback is a recorder; it is logged with the
\* Route that holds it and the Route it is given
RECURSIVE didCreateRoute(_, _, _)
didCreateRoute(h, this, route) ==
  LET h1 == [h EXCEPT !.log = Append(@, [holder |-> this, callback |-> h.onNewRoute[this], route |-> route])]
  IN IF h.parent[this] # None THEN didCreateRoute(h1, h.parent[this], route) ELSE h1

\* onNewRoute(callback)
onNewRoute(h, this, callback) == [h EXCEPT !.onNewRoute[this] = callback]

\* add as it would be if the new Route were attached before its nested routes
\* are built ("create parents first then children")
RECURSIVE addParentFirst(_, _, _)
RECURSIVE addEachParentFirst(_, _, _)
addEachParentFirst(h, route, definitions) ==
  IF definitions = <<>> THEN h
  ELSE LET h1 == addParentFirst(h, route, Head(definitions)) IN
       IF h1.thrown # NoError THEN h1 ELSE addEachParentFirst(h1, route, Tail(definitions))

addParentFirst(h, this, definition) ==
  LET route == Len(h.name) + 1
      h1 == construct(h, [label |-> definition.label, name |-> definition.name,
                          path |-> IF definition.path # Undefined THEN definition.path
                                   ELSE <<"/">> \o definition.name,
                          routes |-> <<>>, parent |-> None])
      h2 == setParent(h1, route, this)
      h3 == IF Len(definition.routes) > 0 THEN addEachParentFirst(h2, route, definition.routes) ELSE h2
  IN didCreateRoute(h3, this, route)

\* definition.routes.map(childDefinition => route.add(childDefinition)) is addEach,
\* which an exception thrown by add would leave; add returns the Route numbered Len(h.name) + 1 at the call
RECURSIVE add(_, _, _)
RECURSIVE addEach(_, _, _)
addEach(h, route, definitions) ==
  IF definitions = <<>> THEN h
  ELSE LET h1 == add(h, route, Head(definitions)) IN
       IF h1.thrown # NoError THEN h1 ELSE addEach(h1, route, Tail(definitions))

add(h, this, definition) ==
  LET route == Len(h.name) + 1
      h1 == construct(h, [label |-> definition.label, name |-> definition.name,
                          path |-> IF definition.path # Undefined THEN definition.path
                                   ELSE <<"/">> \o definition.name,
                          routes |-> <<>>, parent |-> None])
      h2 == IF Len(definition.routes) > 0 THEN addEach(h1, route, definition.routes) ELSE h1
      h3 == setParent(h2, route, this)
  IN didCreateRoute(h3, this, route)

-----------------------------------------------------------------------------
(* Inputs: Route Definitions, paths, searches *)

Definition(n, l, p, rs) == [name |-> n, label |-> l, path |-> p, routes |-> rs]

\* definitions without nested routes: a page with the default path /<name>, a
\* page of the same name with a dynamic path, and an index page with path "/"
LeafDefinitions ==
  { Definition(<<"a">>, <<"A">>, Undefined, <<>>),
    Definition(<<"a">>, <<"A">>, <<"/", ":", "a">>, <<>>),
    Definition(<<"b">>, <<"B">>, <<"/">>, <<>>) }

\* definitions with nested routes, one and two levels deep
NestedDefinitions ==
  { Definition(<<"a">>, <<"A">>, Undefined, <<c>>) : c \in LeafDefinitions }
  \cup { Definition(<<"b">>, <<"B">>, Undefined, <<c, c>>) : c \in LeafDefinitions }
  \cup { Definition(<<"a">>, <<"A">>, Undefined, <<Definition(<<"b">>, <<"B">>, Undefined, <<c>>)>>) : c \in LeafDefinitions }

Definitions == LeafDefinitions \cup NestedDefinitions

\* the number of Routes a definition makes
RECURSIVE Size(_)
RECURSIVE SizeAll(_)
SizeAll(definitions) == IF definitions = <<>> THEN 0 ELSE Size(Head(definitions)) + SizeAll(Tail(definitions))

Size(definition) == 1 + SizeAll(definition.routes)

\* the definition lists a Router is constructed from
DefinitionLists ==
  { ds \in {<<>>} \cup { <<d>> : d \in Definitions } \cup { <<d, e>> : d \in Definitions, e \in Definitions } :
      1 + SizeAll(ds) <= MaxRoutes }

\* the built-in definition list, used when new Router() is given none
allRoutesDefinitions ==
  <<
    Definition(<<"i", "n", "d", "e", "x">>,
               <<"I", "n", "d", "e", "x">>,
               <<"/">>, <<>>),
    Definition(<<"t", "h", "a", "n", "k", "s">>,
               <<"T", "h", "a", "n", "k", "s">>,
               Undefined, <<>>),
    Definition(<<"d", "o", "c", "s">>,
               <<"D", "o", "c", "u", "m", "e", "n", "t", "a", "t", "i", "o", "n">>,
               Undefined,
      <<
        Definition(<<"g", "e", "t", "t", "i", "n", "g", "-", "s", "t", "a", "r", "t", "e", "d">>,
                   <<"G", "e", "t", "t", "i", "n", "g", " ", "s", "t", "a", "r", "t", "e", "d">>,
                   Undefined,
          <<
            Definition(<<"i", "n", "t", "r", "o", "d", "u", "c", "t", "i", "o", "n">>,
                       <<"I", "n", "t", "r", "o", "d", "u", "c", "t", "i", "o", "n">>,
                       Undefined, <<>>),
            Definition(<<"i", "n", "s", "t", "a", "l", "l", "a", "t", "i", "o", "n">>,
                       <<"I", "n", "s", "t", "a", "l", "l", "a", "t", "i", "o", "n">>,
                       Undefined, <<>>),
            Definition(<<"o", "v", "e", "r", "v", "i", "e", "w">>,
                       <<"O", "v", "e", "r", "v", "i", "e", "w">>,
                       Undefined, <<>>) >>),
        Definition(<<"m", "a", "i", "n", "-", "c", "o", "n", "c", "e", "p", "t", "s">>,
                   <<"M", "a", "i", "n", " ", "c", "o", "n", "c", "e", "p", "t", "s">>,
                   Undefined,
          <<
            Definition(<<"r", "o", "u", "t", "e", "-", "h", "a", "n", "d", "l", "e", "r", "s">>,
                       <<"R", "o", "u", "t", "e", " ", "h", "a", "n", "d", "l", "e", "r", "s">>,
                       Undefined, <<>>),
            Definition(<<"s", "h", "o", "r", "t", "h", "a", "n", "d", "s">>,
                       <<"S", "h", "o", "r", "t", "h", "a", "n", "d", "s">>,
                       Undefined, <<>>),
            Definition(<<"d", "a", "t", "a", "b", "a", "s", "e">>,
                       <<"T", "h", "e", " ", "D", "a", "t", "a", "b", "a", "s", "e">>,
                       Undefined, <<>>),
            Definition(<<"o", "r", "m">>,
                       <<"T", "h", "e", " ", "O", "R", "M">>,
                       Undefined, <<>>),
            Definition(<<"m", "o", "d", "e", "l", "s">>,
                       <<"M", "o", "d", "e", "l", "s">>,
                       Undefined, <<>>),
            Definition(<<"r", "e", "l", "a", "t", "i", "o", "n", "s", "h", "i", "p", "s">>,
                       <<"R", "e", "l", "a", "t", "i", "o", "n", "s", "h", "i", "p", "s">>,
                       Undefined, <<>>),
            Definition(<<"f", "a", "c", "t", "o", "r", "i", "e", "s">>,
                       <<"F", "a", "c", "t", "o", "r", "i", "e", "s">>,
                       Undefined, <<>>),
            Definition(<<"f", "i", "x", "t", "u", "r", "e", "s">>,
                       <<"F", "i", "x", "t", "u", "r", "e", "s">>,
                       Undefined, <<>>),
            Definition(<<"s", "e", "r", "i", "a", "l", "i", "z", "e", "r", "s">>,
                       <<"S", "e", "r", "i", "a", "l", "i", "z", "e", "r", "s">>,
                       Undefined, <<>>) >>),
        Definition(<<"t", "e", "s", "t", "i", "n", "g">>,
                   <<"T", "e", "s", "t", "i", "n", "g">>,
                   Undefined,
          <<
            Definition(<<"a", "p", "p", "l", "i", "c", "a", "t", "i", "o", "n", "-", "t", "e", "s", "t", "s">>,
                       <<"A", "p", "p", "l", "i", "c", "a", "t", "i", "o", "n", " ", "t", "e", "s", "t", "s">>,
                       Undefined, <<>>),
            Definition(<<"i", "n", "t", "e", "g", "r", "a", "t", "i", "o", "n", "-", "a", "n", "d", "-", "u", "n", "i", "t", "-", "t", "e", "s", "t", "s">>,
                       <<"I", "n", "t", "e", "g", "r", "a", "t", "i", "o", "n", " ", "a", "n", "d", " ", "u", "n", "i", "t", " ", "t", "e", "s", "t", "s">>,
                       Undefined, <<>>),
            Definition(<<"a", "s", "s", "e", "r", "t", "i", "o", "n", "s">>,
                       <<"A", "s", "s", "e", "r", "t", "i", "o", "n", "s">>,
                       Undefined, <<>>) >>),
        Definition(<<"a", "d", "v", "a", "n", "c", "e", "d">>,
                   <<"A", "d", "v", "a", "n", "c", "e", "d">>,
                   Undefined,
          <<
            Definition(<<"s", "i", "m", "u", "l", "a", "t", "i", "n", "g", "-", "c", "o", "o", "k", "i", "e", "-", "r", "e", "s", "p", "o", "n", "s", "e", "s">>,
                       <<"S", "i", "m", "u", "l", "a", "t", "i", "n", "g", " ", "c", "o", "o", "k", "i", "e", " ", "r", "e", "s", "p", "o", "n", "s", "e", "s">>,
                       Undefined, <<>>),
            Definition(<<"m", "o", "c", "k", "i", "n", "g", "-", "g", "u", "i", "d", "s">>,
                       <<"M", "o", "c", "k", "i", "n", "g", " ", "G", "U", "I", "D", "s">>,
                       Undefined, <<>>),
            Definition(<<"c", "u", "s", "t", "o", "m", "i", "z", "i", "n", "g", "-", "i", "n", "f", "l", "e", "c", "t", "i", "o", "n", "s">>,
                       <<"C", "u", "s", "t", "o", "m", "i", "z", "i", "n", "g", " ", "i", "n", "f", "l", "e", "c", "t", "i", "o", "n", "s">>,
                       Undefined, <<>>) >>),
        Definition(<<"m", "e", "t", "a">>,
                   <<"M", "e", "t", "a">>,
                   Undefined,
          <<
            Definition(<<"c", "o", "m", "p", "a", "r", "i", "s", "o", "n", "-", "w", "i", "t", "h", "-", "o", "t", "h", "e", "r", "-", "t", "o", "o", "l", "s">>,
                       <<"C", "o", "m", "p", "a", "r", "i", "s", "o", "n", " ", "w", "i", "t", "h", " ", "o", "t", "h", "e", "r", " ", "t", "o", "o", "l", "s">>,
                       Undefined, <<>>),
            Definition(<<"a", "b", "o", "u", "t">>,
                       <<"A", "b", "o", "u", "t">>,
                       Undefined, <<>>) >>) >>),
    Definition(<<"a", "p", "i">>,
               <<"A", "P", "I">>,
               Undefined,
      <<
        Definition(<<"c", "l", "a", "s", "s">>,
                   <<"C", "l", "a", "s", "s">>,
                   <<"/", "c", "l", "a", "s", "s", "e", "s", "/", ":", "c", "l", "a", "s", "s", "S", "l", "u", "g">>, <<>>) >>),
    Definition(<<"q", "u", "i", "c", "k", "s", "t", "a", "r", "t", "s">>,
               <<"Q", "u", "i", "c", "k", "s", "t", "a", "r", "t", "s">>,
               Undefined,
      <<
        Definition(<<"r", "e", "a", "c", "t">>,
                   <<"R", "e", "a", "c", "t">>,
                   Undefined,
          <<
            Definition(<<"d", "e", "v", "e", "l", "o", "p", "m", "e", "n", "t">>,
                       <<"D", "e", "v", "e", "l", "o", "p", "m", "e", "n", "t">>,
                       Undefined, <<>>),
            Definition(<<"r", "e", "a", "c", "t", "-", "t", "e", "s", "t", "i", "n", "g", "-", "l", "i", "b", "r", "a", "r", "y">>,
                       <<"R", "e", "a", "c", "t", " ", "T", "e", "s", "t", "i", "n", "g", " ", "L", "i", "b", "r", "a", "r", "y">>,
                       Undefined, <<>>) >>),
        Definition(<<"v", "u", "e">>,
                   <<"V", "u", "e">>,
                   Undefined,
          <<
            Definition(<<"d", "e", "v", "e", "l", "o", "p", "m", "e", "n", "t">>,
                       <<"D", "e", "v", "e", "l", "o", "p", "m", "e", "n", "t">>,
                       Undefined, <<>>),
            Definition(<<"v", "u", "e", "-", "t", "e", "s", "t", "-", "u", "t", "i", "l", "s">>,
                       <<"V", "u", "e", " ", "T", "e", "s", "t", " ", "U", "t", "i", "l", "s">>,
                       Undefined, <<>>),
            Definition(<<"e", "x", "c", "l", "u", "d", "e", "-", "f", "r", "o", "m", "-", "p", "r", "o", "d", "u", "c", "t", "i", "o", "n">>,
                       <<"P", "r", "o", "d", "u", "c", "t", "i", "o", "n", " ", "b", "u", "i", "l", "d", "s">>,
                       Undefined, <<>>) >>),
        Definition(<<"c", "y", "p", "r", "e", "s", "s">>,
                   <<"C", "y", "p", "r", "e", "s", "s">>,
                   Undefined,
          <<
            Definition(<<"s", "e", "t", "u", "p">>,
                       <<"S", "e", "t", "u", "p">>,
                       Undefined, <<>>) >>) >>) >>

RECURSIVE Slashes(_)
Slashes(k) == IF k = 0 THEN <<>> ELSE <<"/">> \o Slashes(k - 1)

\* the paths assigned to activePath: a path, then trailing slashes
BasePaths == { <<>>, <<"/", "a">>, <<"/", "b">>, <<"/", "a", "/", "b">>, <<"/", ":", "a">> }

ActivePaths == { b \o Slashes(k) : b \in BasePaths, k \in 0..MaxSlashes }

-----------------------------------------------------------------------------
(* The Router and the calls made on its tree *)

EmptyHeap ==
  [name |-> <<>>, label |-> <<>>, path |-> <<>>, parent |-> <<>>, routes |-> <<>>,
   activePath |-> <<>>, onNewRoute |-> <<>>, log |-> <<>>, thrown |-> NoError]

\* new Router(definitions): super({name: "", label: "", path: ""}), then add each
newRouter(definitions) ==
  addEach(construct(EmptyHeap, [name |-> <<>>, label |-> <<>>, path |-> <<>>, routes |-> <<>>, parent |-> None]),
          Router, definitions)

\* the state holds the heap h after a call
Store(h) ==
  /\ name' = h.name
  /\ label' = h.label
  /\ path' = h.path
  /\ _parent' = h.parent
  /\ _routes' = h.routes
  /\ _activePath' = h.activePath
  /\ _onNewRoute' = h.onNewRoute
  /\ log' = h.log

\* the state right after new Router(definitions)
Constructed(definitions) ==
  LET h == newRouter(definitions) IN
  /\ name = h.name
  /\ label = h.label
  /\ path = h.path
  /\ _parent = h.parent
  /\ _routes = h.routes
  /\ _activePath = h.activePath
  /\ _onNewRoute = h.onNewRoute
  /\ registered = 0
  /\ log = h.log
  /\ call = [op |-> "new Router", this |-> Router, route |-> None, path |-> <<>>]
  /\ result = Returned(Router)

Init == \E definitions \in DefinitionLists : Constructed(definitions)

\* this.add(definition), while the tree holds at most limit Routes
Add(definitions, limit) ==
  \E this \in Routes(Heap), definition \in definitions :
    /\ Len(name) + Size(definition) <= limit
    /\ Store(add([Heap EXCEPT !.log = <<>>], this, definition))
    /\ UNCHANGED registered
    /\ call' = [op |-> "add", this |-> this, route |-> Len(name) + 1, path |-> <<>>]
    /\ result' = Returned(Len(name) + 1)

AddCall == Add(Definitions, MaxRoutes)

\* this.activePath = p, for p among paths: a child route throws whatever p is
SetActivePath(paths) ==
  \E this \in Routes(Heap) :
    \E p \in IF _parent[this] # None THEN {<<>>} ELSE paths :
      LET h == setActivePath([Heap EXCEPT !.log = <<>>], this, p) IN
      /\ Store(h)
      /\ UNCHANGED registered
      /\ call' = [op |-> "set activePath", this |-> None, route |-> None, path |-> <<>>]
      /\ result' = [thrown |-> h.thrown, value |-> None]

SetActivePathCall == SetActivePath(ActivePaths)

\* a Router, the calls that extend its tree and the assignments of its active path
Next == AddCall \/ SetActivePathCall

Spec == Init /\ [][Next]_vars

\* a Router and the calls that extend its tree
AddCallTree == Add(Definitions, MaxTreeRoutes)

NextTree == AddCallTree

SpecTree == Init /\ [][NextTree]_vars

-----------------------------------------------------------------------------
(* new Router() with the built-in definition list, and assignments of its  *)
(* active path to the fullPath of a Route of the tree, then trailing       *)
(* slashes                                                                 *)

InitDefault == Constructed(allRoutesDefinitions)

FullPathsWithSlashes == { fullPath(Heap, r) \o Slashes(k) : r \in Routes(Heap), k \in 0..MaxSlashes }

SetActivePathDefault == SetActivePath(FullPathsWithSlashes)

NextDefault == SetActivePathDefault

SpecDefault == InitDefault /\ [][NextDefault]_vars

-----------------------------------------------------------------------------
(* The matcher on its own: a Router with one page whose path is the pattern, *)
(* and calls of matches on that page                                        *)

\* the segments of a pattern: literals without ':' (the empty one included) and
\* a ':name' token
Segments == { <<>>, <<"a">>, <<"b">>, <<":", "a">> }

\* the patterns: a leading '/', then at most MaxSegments segments joined by '/'
Patterns == UNION { { <<"/">> \o Join(segs, <<"/">>) : segs \in [1..k -> Segments] } : k \in 1..MaxSegments }

\* the candidate paths: every string of at most MaxPathLen of these characters
Characters == { "/", "a", "b", ":" }

Candidates == UNION { [1..k -> Characters] : k \in 0..MaxPathLen }

\* the page of the Router of InitMatch
Page == Router + 1

InitMatch == \E pattern \in Patterns : Constructed(<<Definition(<<"p">>, <<"P">>, pattern, <<>>)>>)

\* Page.matches(p); its boolean is kept as the string a template would print
MatchesCall ==
  \E p \in Candidates :
    LET r == matches(Heap, Page, p) IN
    /\ call' = [op |-> "matches", this |-> Page, route |-> None, path |-> p]
    /\ result' = [thrown |-> r.thrown, value |-> IF r.thrown = NoError /\ r.value THEN 1 ELSE 0]
    /\ UNCHANGED <<name, label, path, _parent, _routes, _activePath, _onNewRoute, registered, log>>

NextMatch == MatchesCall

SpecMatch == InitMatch /\ [][NextMatch]_vars

-----------------------------------------------------------------------------
(* Creation notifications: a Router, onNewRoute registrations and add calls *)

\* the definitions added while listeners are registered: a page, and
\* definitions with nested routes one and two levels deep
NotifyDefinitions ==
  LET page == Definition(<<"a">>, <<"A">>, Undefined, <<>>) IN
  { page,
    Definition(<<"a">>, <<"A">>, Undefined, <<page>>),
    Definition(<<"a">>, <<"A">>, Undefined, <<page, page>>),
    Definition(<<"a">>, <<"A">>, Undefined, <<Definition(<<"a">>, <<"A">>, Undefined, <<page>>)>>) }

InitNotify == \E definitions \in { <<>> } \cup { <<d>> : d \in NotifyDefinitions } : Constructed(definitions)

AddCallNotify == Add(NotifyDefinitions, MaxNotifyRoutes)

\* this.onNewRoute(callback), with a callback never registered before
OnNewRouteCall ==
  \E this \in Routes(Heap) :
    /\ registered < MaxCallbacks
    /\ Store(onNewRoute([Heap EXCEPT !.log = <<>>], this, registered + 1))
    /\ registered' = registered + 1
    /\ call' = [op |-> "onNewRoute", this |-> this, route |-> None, path |-> <<>>]
    /\ result' = Returned(None)

NextNotify == AddCallNotify \/ OnNewRouteCall

SpecNotify == InitNotify /\ [][NextNotify]_vars

-----------------------------------------------------------------------------
(* Parent and children links: Routes constructed with a child list or a     *)
(* parent, and assignments to routes and to parent, on top of add calls.    *)
(* No call makes a Route its own ancestor, so that fullName terminates.     *)

\* the child lists handed to a constructor or assigned to routes: at most two
\* distinct Routes
RouteLists(h) ==
  { <<>> } \cup { <<r>> : r \in Routes(h) } \cup { <<r, q>> : <<r, q>> \in { pair \in Routes(h) \X Routes(h) : pair[1] # pair[2] } }

\* the i-th Route constructed outside add is named after its number
LinkNames == << <<"r">>, <<"a">>, <<"b">>, <<"c">>, <<"d">>, <<"e">> >>

LinkDefinitions == { Definition(<<"n">>, <<"N">>, Undefined, <<>>) }

InitLinks == Constructed(<<>>)

AddCallLinks == Add(LinkDefinitions, MaxLinkRoutes)

\* new Route({label, name, path, routes, parent})
NewRouteCall ==
  \E routes \in RouteLists(Heap), parent \in {None} \cup Routes(Heap) :
    LET this == Len(name) + 1
        h == construct([Heap EXCEPT !.log = <<>>],
                       [label |-> <<"L">>, name |-> LinkNames[this], path |-> <<"/">> \o LinkNames[this],
                        routes |-> routes, parent |-> parent])
    IN /\ this <= MaxLinkRoutes
       /\ parent # None => \A i \in 1..Len(routes) : routes[i] \notin ChainOf(Heap, parent)
       /\ Store(h)
       /\ UNCHANGED registered
       /\ call' = [op |-> "new Route", this |-> this, route |-> parent, path |-> <<>>]
       /\ result' = [thrown |-> h.thrown, value |-> IF h.thrown = NoError THEN this ELSE None]

\* this.parent = parent
SetParentCall ==
  \E this \in Routes(Heap), parent \in Routes(Heap) :
    /\ this \notin ChainOf(Heap, parent)
    /\ Store(setParent([Heap EXCEPT !.log = <<>>], this, parent))
    /\ UNCHANGED registered
    /\ call' = [op |-> "set parent", this |-> this, route |-> parent, path |-> <<>>]
    /\ result' = Returned(None)

\* this.routes = routes
SetRoutesCall ==
  \E this \in Routes(Heap), routes \in RouteLists(Heap) :
    LET h == setRoutes([Heap EXCEPT !.log = <<>>], this, routes) IN
    /\ \A i \in 1..Len(routes) : routes[i] \notin ChainOf(Heap, this)
    /\ Store(h)
    /\ UNCHANGED registered
    /\ call' = [op |-> "set routes", this |-> this, route |-> None, path |-> <<>>]
    /\ result' = [thrown |-> h.thrown, value |-> None]

NextLinks == AddCallLinks \/ NewRouteCall \/ SetParentCall \/ SetRoutesCall

SpecLinks == InitLinks /\ [][NextLinks]_vars

-----------------------------------------------------------------------------
(* The tree as the parent links and the order of construction describe it, *)
(* for stating the claims independently of the children arrays            *)

RECURSIVE AncestorsOrSelf(_)
AncestorsOrSelf(r) == {r} \cup (IF _parent[r] = None THEN {} ELSE AncestorsOrSelf(_parent[r]))

Ancestors(r) == AncestorsOrSelf(r) \ {r}

\* the Routes below the Router that are no Route's parent
Leaves == { r \in Routes(Heap) \ {Router} : ~\E c \in Routes(Heap) : _parent[c] = r }

\* p comes before q in a depth-first pre-order walk that visits siblings in the
\* order they were constructed, which is the order of their definitions
VisitedBefore(p, q) ==
  \/ p \in Ancestors(q)
  \/ \E x \in AncestorsOrSelf(p), y \in AncestorsOrSelf(q) : x # y /\ _parent[x] = _parent[y] /\ x < y

\* a Route's own {name, fullName, path, fullPath, label}
Own(r) ==
  [name |-> name[r], fullName |-> fullName(Heap, r), path |-> path[r],
   fullPath |-> fullPath(Heap, r), label |-> label[r]]

Min(S) == CHOOSE x \in S : \A y \in S : x <= y

-----------------------------------------------------------------------------
(* Claims *)

\* C6: the Router's pages hold no Route that has children, and hold every leaf
\* of the tree exactly once, in depth-first pre-order with children in the order
\* of their definitions.
C6_PagesAreLeavesInOrder ==
  LET pg == pages(Heap, Router) IN
  /\ \A i \in 1..Len(pg) : \A c \in Routes(Heap) : _parent[c] # pg[i]
  /\ \A r \in Leaves : Cardinality({ i \in 1..Len(pg) : pg[i] = r }) = 1
  /\ \A i \in 1..Len(pg) : \A j \in 1..Len(pg) : i < j => VisitedBefore(pg[i], pg[j])

\* C6 witness: add was called on a page below the Router, which made it a
\* branch, and the new page comes before a page that was constructed earlier.
C6_Witness ==
  /\ call.op = "add"
  /\ call.this # Router
  /\ Len(_routes[call.this]) = 1
  /\ \E p \in Leaves : p < call.route /\ pages(Heap, Router) = <<call.route, p>>


\* C7 as claimed: find on the Router with the own {name, fullName, path, fullPath,
\* label} of any Route below the Router returns that Route, and has is true.
C7_RoundTrip ==
  \A n \in Routes(Heap) \ {Router} :
    find(Heap, Router, Own(n)) = n /\ has(Heap, Router, Own(n))

\* C7 as amended: find with a Route's own five fields returns the first Route in
\* depth-first order that carries those five fields, which is the Route itself
\* when no other Route carries them; has is true.  The Router itself is not
\* searched: its own five fields find nothing unless a Route below carries them.
C7_RoundTripFirst ==
  \A n \in Routes(Heap) \ {Router} :
    LET f == find(Heap, Router, Own(n)) IN
    /\ has(Heap, Router, Own(n))
    /\ f \in Routes(Heap) \ {Router}
    /\ Own(f) = Own(n)
    /\ f = n \/ VisitedBefore(f, n)
    /\ (\A m \in Routes(Heap) \ {Router, n} : Own(m) # Own(n)) => f = n
    /\ (\A m \in Routes(Heap) \ {Router} : Own(m) # Own(Router)) => find(Heap, Router, Own(Router)) = None

\* C7 witness: a branch and a page below it are found by their own fields, and
\* a third Route that repeats a definition is not the Route find returns.
C7_Witness ==
  \E n \in Routes(Heap) \ {Router} : \E m \in Routes(Heap) \ {Router} : \E d \in Routes(Heap) \ {Router} :
    /\ _parent[m] = n
    /\ find(Heap, Router, Own(n)) = n
    /\ find(Heap, Router, Own(m)) = m
    /\ find(Heap, Router, Own(d)) \notin {d, None}


\* the Router's active path, trailing slashes stripped
ActiveStripped == StripTrailingSlashes(_activePath[Router])

\* the Router's pages, and the position (from 1) of its active page in them
RouterPages == pages(Heap, Router)

ActiveIndex == Min({ i \in 1..Len(RouterPages) : RouterPages[i] = activePage(Heap, Router).value })

\* C3 as claimed: with the Router's active page at position i of its pages,
\* previousPage is the page at i-1, or nothing when i is the first position, and
\* nextPage is the page at i+1, or nothing when i is the last position.
C3_NeighboursOfActivePage ==
  (activePage(Heap, Router).thrown = NoError /\ activePage(Heap, Router).value # None) =>
    /\ previousPage(Heap, Router) = Returned(IF ActiveIndex > 1 THEN RouterPages[ActiveIndex - 1] ELSE None)
    /\ nextPage(Heap, Router) = Returned(IF ActiveIndex < Len(RouterPages) THEN RouterPages[ActiveIndex + 1] ELSE None)

\* there is no active page: activePath was never assigned, or no page matches it
NoActivePage ==
  \/ _activePath[Router] = Undefined
  \/ \A i \in 1..Len(RouterPages) : Includes(ActiveStripped, ":") \/ ~match(fullPath(Heap, RouterPages[i]), ActiveStripped)

\* C4 as claimed: when there is no active page, previousPage and nextPage of
\* the Router return nothing and throw nothing.
C4_NothingWithoutActivePage ==
  NoActivePage => previousPage(Heap, Router) = Returned(None) /\ nextPage(Heap, Router) = Returned(None)

\* C2 as claimed: right after activePath is assigned the fullPath f of a page P
\* followed by any number of '/', where f has no dynamic segment and no earlier
\* page has fullPath f, the active page is P.
C2_ActivePageIgnoresTrailingSlashes ==
  (call.op = "set activePath" /\ result.thrown = NoError) =>
    \A i \in 1..Len(RouterPages) :
      LET f == fullPath(Heap, RouterPages[i]) IN
      ( /\ ~Includes(f, ":")
        /\ \A j \in 1..(i - 1) : fullPath(Heap, RouterPages[j]) # f
        /\ \E k \in 0..MaxSlashes : _activePath[Router] = f \o Slashes(k) )
      => activePage(Heap, Router) = Returned(RouterPages[i])

PagesBelow(n) == SelectSeq(RouterPages, LAMBDA r : n \in Ancestors(r))

RECURSIVE Split(_)
Split(str) ==
  IF ~Includes(str, "/") THEN <<str>>
  ELSE <<SubSeq(str, 1, IndexOf(str, "/"))>> \o Split(Substr(str, IndexOf(str, "/") + 1))

\* the segment-split reference: the same number of segments, literal segments
\* equal, each ':'-prefixed segment paired with a non-empty segment
SegmentsMatch(pattern, candidate) ==
  LET ps == Split(pattern)
      cs == Split(candidate)
  IN /\ Len(ps) = Len(cs)
     /\ \A i \in 1..Len(ps) :
          IF ps[i] # <<>> /\ ps[i][1] = ":" THEN cs[i] # <<>> ELSE ps[i] = cs[i]

\* C1 as claimed: for a pattern of literal and ':name' segments and a candidate
\* without ':', matches returns what the segment-split reference returns.
C1_MatchesIsSegmentwise ==
  (call.op = "matches" /\ ~Includes(call.path, ":")) =>
    /\ result.thrown = NoError
    /\ (result.value = 1) = SegmentsMatch(fullPath(Heap, call.this), call.path)


\* the Routes made by the last add for the definitions nested under its own
NestedRoutes == IF call.op = "add" THEN (call.route + 1)..Len(name) ELSE {}

\* the invocations in the log of callbacks that were registered with onNewRoute
Invocations == SelectSeq(log, LAMBDA e : e.callback # Noop)

\* the parent chain from r up to the Router, r first
RECURSIVE Chain(_)
Chain(r) == <<r>> \o (IF _parent[r] = None THEN <<>> ELSE Chain(_parent[r]))

C9_ListenersInvokedUpTheChain ==
  call.op = "add" =>
    LET holders == SelectSeq((IF _onNewRoute[call.route] # Noop THEN <<call.route>> ELSE <<>>) \o Chain(call.this),
                             LAMBDA r : _onNewRoute[r] # Noop)
    IN /\ Len(Invocations) = Len(holders)
       /\ \A i \in 1..Len(holders) :
            Invocations[i] = [holder |-> holders[i], callback |-> _onNewRoute[holders[i]], route |-> call.route]

\* C9 witness: add was called on a Route below the Router whose first listener
\* was replaced by a second, and the Router holds a third.
C9_Witness ==
  /\ call.op = "add"
  /\ call.this # Router
  /\ registered = 3
  /\ _onNewRoute[call.this] = 2
  /\ _onNewRoute[Router] = 3
  /\ Len(Invocations) = 2


\* the Routes whose children hold r
Holders(r) == { y \in Routes(Heap) : ArrayIncludes(_routes[y], r) }

\* the Routes a call tried to make children of the receiver of "set routes" or
\* of the Route made by "new Route", or the receiver of "set parent" itself
Attached ==
  CASE call.op \in {"set routes", "new Route"} -> { _routes[call.this][i] : i \in 1..Len(_routes[call.this]) }
    [] call.op = "set parent" -> { call.this }
    [] OTHER -> {}

\* the Route the call tried to make their parent
AttachedTo == IF call.op = "set parent" THEN call.route ELSE call.this

\* C5 as claimed: every Route is held in the children of at most one Route, and
\* that Route is its parent; a call that tries to make a Route with parent X a
\* child of another Route Y throws the conflict error that names X and Y, and
\* leaves the Route a child of X only.
C5_OneParent ==
  [][ /\ \A r \in Routes(Heap)' : Holders(r)' \subseteq { _parent'[r] }
      /\ \A r \in Attached' :
           (r \in Routes(Heap) /\ _parent[r] \notin {None, AttachedTo'}) =>
             /\ \E n \in Routes(Heap) : result'.thrown = ConflictError(fullName(Heap, n), fullName(Heap', AttachedTo'), fullName(Heap, _parent[n]))
             /\ _parent'[r] = _parent[r]
             /\ Holders(r)' = { _parent[r] } ]_vars

====
